---- MODULE Spec2Model ----
(***************************************************************************)
(* Model of the risk engine of live-market-risk: the AlertMonitor          *)
(* (src/alerts/monitor.py) and the BacktestEngine                          *)
(* (src/back_testing/validator.py).                                        *)
(*                                                                         *)
(* Numbers.  The program computes on floats.  The model represents a real  *)
(* x by the integer 100 * x (two decimal places, fixed point): a return of *)
(* 0.12 is 12, a VaR threshold of 10.0 (percent) is 1000, a confidence of  *)
(* 0.95 is 95.  Multiplying a represented value by the plain number 100,   *)
(* as the code does to turn a decimal return into a percentage, is the     *)
(* integer product by 100.                                                 *)
(***************************************************************************)
EXTENDS Integers, Sequences, FiniteSets, TLC

VARIABLES
    max_alerts,     \* AlertMonitor: maxlen of the deque self.alerts
    alerts,         \* AlertMonitor.alerts, oldest first
    breach_count,   \* AlertMonitor.breach_count: '95%' and '99%' -> int
    now,            \* the clock datetime.now() reads
    call,           \* the last operation invoked and its arguments
    ret,            \* what that operation returned
    emitted,        \* history: the alerts emitted since construction or reset
    lifetime,       \* history: how many alerts were emitted since construction
    feed,           \* how the caller picks check_breach inputs (see FeedReturn)
    pc,             \* concurrent callers: where each thread is in its call
    local           \* concurrent callers: each thread's local values

monitorVars == <<max_alerts, alerts, breach_count, now, call, ret, emitted,
                 lifetime, feed>>
threadVars == <<pc, local>>
vars == <<monitorVars, threadVars>>

(***************************************************************************)
(* Bounds of the model.                                                    *)
(***************************************************************************)
MaxCap == 2         \* capacities 0..MaxCap are explored with free inputs
MaxEmit == 3        \* free inputs: alerts emitted between two resets
MaxClock == 3       \* free inputs: check_breach calls in a run
MaxRecent == 3      \* get_recent_alerts(n) is called with n in 0..MaxRecent
MaxPeriod == 3      \* scripted feed: every p-th alert is CRITICAL, p in 1..MaxPeriod
FeedTarget == 150   \* scripted feed: alerts appended to the default monitor

DefaultMaxAlerts == 100     \* __init__(self, max_alerts=100)
RecentInSummary == 5        \* get_alert_summary: self.get_recent_alerts(5)

(***************************************************************************)
(* What a call returned, as recorded in `ret`: None is Python's None,      *)
(* List(l) a list, Tuple(t) a tuple, Value(n) a number, Raise(e) a call    *)
(* that ended by raising e; a dictionary is recorded as it is.             *)
(***************************************************************************)
None == [none |-> TRUE]
List(l) == [list |-> l]
Tuple(t) == [tuple |-> t]
Value(n) == [value |-> n]
Raise(e) == [raised |-> e]

Abs(x) == IF x < 0 THEN -x ELSE x
Min(a, b) == IF a <= b THEN a ELSE b
Max(a, b) == IF a >= b THEN a ELSE b

(***************************************************************************)
(* collections.deque(maxlen = m).append(x): a full deque drops its oldest  *)
(* entry to make room; a deque of maxlen 0 keeps nothing.                  *)
(***************************************************************************)
\* Mutant: a full deque refuses the new entry instead of dropping the oldest.
DequeAppend_keep_oldest(d, m, x) ==
    IF Len(d) >= m THEN d ELSE Append(d, x)

DequeAppend(d, m, x) ==
    IF m = 0 THEN d
    ELSE IF Len(d) >= m THEN Append(Tail(d), x)
    ELSE Append(d, x)

(***************************************************************************)
(* AlertMonitor.__init__                                                   *)
(***************************************************************************)
NoBreaches == [k \in {"95%", "99%"} |-> 0]

(***************************************************************************)
(* AlertMonitor.check_breach.  The result is the new breach_count, the new *)
(* deque and the returned list `breaches`.                                 *)
(***************************************************************************)
\* Mutant: two independent ifs, so a 99% breach is also recorded at 95%.
check_breach_both(bc, dq, m, current_return, var_95, var_99, symbol, t) ==
    LET abs_return == Abs(current_return * 100)
        crit == [level |-> "99%", severity |-> "CRITICAL", symbol |-> symbol,
                 return |-> current_return * 100, threshold |-> var_99,
                 excess |-> abs_return - var_99, timestamp |-> t]
        warn == [level |-> "95%", severity |-> "WARNING", symbol |-> symbol,
                 return |-> current_return * 100, threshold |-> var_95,
                 excess |-> abs_return - var_95, timestamp |-> t]
        b99 == IF abs_return > var_99 THEN <<crit>> ELSE <<>>
        b95 == IF abs_return > var_95 THEN <<warn>> ELSE <<>>
        dq99 == IF b99 = <<>> THEN dq ELSE DequeAppend(dq, m, crit)
    IN  [breach_count |-> [bc EXCEPT !["99%"] = @ + Len(b99),
                                     !["95%"] = @ + Len(b95)],
         alerts |-> IF b95 = <<>> THEN dq99 ELSE DequeAppend(dq99, m, warn),
         breaches |-> b99 \o b95]

\* Mutant: the excess is taken from the signed return, not from its magnitude.
check_breach_signed_excess(bc, dq, m, current_return, var_95, var_99, symbol, t) ==
    LET abs_return == Abs(current_return * 100)
        crit == [level |-> "99%", severity |-> "CRITICAL", symbol |-> symbol,
                 return |-> current_return * 100, threshold |-> var_99,
                 excess |-> current_return * 100 - var_99, timestamp |-> t]
        warn == [level |-> "95%", severity |-> "WARNING", symbol |-> symbol,
                 return |-> current_return * 100, threshold |-> var_95,
                 excess |-> current_return * 100 - var_95, timestamp |-> t]
    IN  IF abs_return > var_99
        THEN [breach_count |-> [bc EXCEPT !["99%"] = @ + 1],
              alerts |-> DequeAppend(dq, m, crit),
              breaches |-> <<crit>>]
        ELSE IF abs_return > var_95
        THEN [breach_count |-> [bc EXCEPT !["95%"] = @ + 1],
              alerts |-> DequeAppend(dq, m, warn),
              breaches |-> <<warn>>]
        ELSE [breach_count |-> bc, alerts |-> dq, breaches |-> <<>>]

check_breach(bc, dq, m, current_return, var_95, var_99, symbol, t) ==
    LET abs_return == Abs(current_return * 100)
        crit == [level |-> "99%", severity |-> "CRITICAL", symbol |-> symbol,
                 return |-> current_return * 100, threshold |-> var_99,
                 excess |-> abs_return - var_99, timestamp |-> t]
        warn == [level |-> "95%", severity |-> "WARNING", symbol |-> symbol,
                 return |-> current_return * 100, threshold |-> var_95,
                 excess |-> abs_return - var_95, timestamp |-> t]
    IN  IF abs_return > var_99
        THEN [breach_count |-> [bc EXCEPT !["99%"] = @ + 1],
              alerts |-> DequeAppend(dq, m, crit),
              breaches |-> <<crit>>]
        ELSE IF abs_return > var_95
        THEN [breach_count |-> [bc EXCEPT !["95%"] = @ + 1],
              alerts |-> DequeAppend(dq, m, warn),
              breaches |-> <<warn>>]
        ELSE [breach_count |-> bc, alerts |-> dq, breaches |-> <<>>]

(***************************************************************************)
(* AlertMonitor.get_recent_alerts: list(self.alerts)[-n:].  Python reads   *)
(* the slice start -n from the end when n > 0; -0 is 0, the start of the   *)
(* list, so [-0:] is the whole list.                                       *)
(***************************************************************************)
SliceFrom(s, start) ==
    LET len == Len(s)
        i == IF start < 0 THEN Max(len + start, 0) ELSE Min(start, len)
    IN  SubSeq(s, i + 1, len)

get_recent_alerts(dq, n) == SliceFrom(dq, -n)

(***************************************************************************)
(* AlertMonitor.get_alert_summary                                          *)
(***************************************************************************)
\* Mutant: total_alerts reports the lifetime counters, not the ring size.
get_alert_summary_lifetime_total(bc, dq) ==
    [total_alerts |-> bc["95%"] + bc["99%"],
     breaches_95 |-> bc["95%"],
     breaches_99 |-> bc["99%"],
     recent |-> get_recent_alerts(dq, RecentInSummary)]

get_alert_summary(bc, dq) ==
    [total_alerts |-> Len(dq),
     breaches_95 |-> bc["95%"],
     breaches_99 |-> bc["99%"],
     recent |-> get_recent_alerts(dq, RecentInSummary)]

(***************************************************************************)
(* AlertMonitor.reset_counts: a fresh dictionary of zeros, then            *)
(* self.alerts.clear().                                                    *)
(***************************************************************************)
\* Mutant: the ring is cleared but the counters are left as they are.
reset_counts_keeps_counters(bc, dq) == [breach_count |-> bc, alerts |-> <<>>]

reset_counts(bc, dq) == [breach_count |-> NoBreaches, alerts |-> <<>>]

(***************************************************************************)
(* Inputs.  Returns -0.20, 0.05 and 0.12.  Each instrument comes with its  *)
(* thresholds, as in the dashboard, which passes the selected asset and    *)
(* the VaR figures computed for it: 10.0/15.0, the dashboard's default 0/0 *)
(* when a metric is missing, and a pair given in the wrong order.          *)
(***************************************************************************)
Returns == {-20, 5, 12}
Instruments ==
    { [symbol |-> "PORTFOLIO", var_95 |-> 1000, var_99 |-> 1500],
      [symbol |-> "^NSEI", var_95 |-> 0, var_99 |-> 0],
      [symbol |-> "RELIANCE.NS", var_95 |-> 1500, var_99 |-> 1000] }

(***************************************************************************)
(* The caller.  feed = 0: every call takes any input.  feed = p > 0 is the *)
(* scenario of appending FeedTarget alerts to a monitor, with no reset on  *)
(* the way: call number i (counted by the clock) breaches 99% when p       *)
(* divides i and 95% otherwise.                                            *)
(***************************************************************************)
FeedReturn(p, i) == IF i % p = 0 THEN -20 ELSE 12

Capacities == 0..MaxCap

Init ==
    /\ feed \in 0..MaxPeriod
    /\ max_alerts \in (IF feed = 0 THEN Capacities ELSE {DefaultMaxAlerts})
    /\ alerts = <<>>
    /\ breach_count = NoBreaches
    /\ now = 0
    /\ call = [op |-> "__init__", max_alerts |-> max_alerts]
    /\ ret = None
    /\ emitted = <<>>
    /\ lifetime = 0
    /\ pc = <<>>
    /\ local = <<>>

DoCheck(current_return, var_95, var_99, symbol) ==
    LET r == check_breach(breach_count, alerts, max_alerts,
                          current_return, var_95, var_99, symbol, now)
    IN  /\ breach_count' = r.breach_count
        /\ alerts' = r.alerts
        /\ ret' = List(r.breaches)
        /\ emitted' = emitted \o r.breaches
        /\ lifetime' = lifetime + Len(r.breaches)
        /\ call' = [op |-> "check_breach", current_return |-> current_return,
                    var_95 |-> var_95, var_99 |-> var_99, symbol |-> symbol]
        /\ UNCHANGED <<max_alerts, feed, threadVars>>

CheckBreach ==
    /\ feed = 0
    /\ Len(emitted) < MaxEmit
    /\ now < MaxClock
    /\ now' = now + 1
    /\ \E current_return \in Returns, i \in Instruments :
          DoCheck(current_return, i.var_95, i.var_99, i.symbol)

FeedBreach ==
    /\ feed > 0
    /\ now < FeedTarget
    /\ now' = now + 1
    /\ DoCheck(FeedReturn(feed, now), 1000, 1500, "PORTFOLIO")

RecentAlerts ==
    /\ \E n \in 0..MaxRecent :
          /\ ret' = List(get_recent_alerts(alerts, n))
          /\ call' = [op |-> "get_recent_alerts", n |-> n]
    /\ UNCHANGED <<max_alerts, alerts, breach_count, now, emitted, lifetime, feed,
                   threadVars>>

Summary ==
    /\ ret' = get_alert_summary(breach_count, alerts)
    /\ call' = [op |-> "get_alert_summary"]
    /\ UNCHANGED <<max_alerts, alerts, breach_count, now, emitted, lifetime, feed,
                   threadVars>>

ResetCounts ==
    /\ feed = 0
    /\ LET r == reset_counts(breach_count, alerts)
       IN  /\ breach_count' = r.breach_count
           /\ alerts' = r.alerts
    /\ emitted' = <<>>
    /\ ret' = None
    /\ call' = [op |-> "reset_counts"]
    /\ UNCHANGED <<max_alerts, now, lifetime, feed, threadVars>>

Next == CheckBreach \/ FeedBreach \/ RecentAlerts \/ Summary \/ ResetCounts

Spec == Init /\ [][Next]_vars

(***************************************************************************)
(* Several threads calling check_breach and reset_counts on one monitor.   *)
(* The class takes no lock, so the calls interleave at the points where    *)
(* CPython can switch threads.  A call is split there:                     *)
(*   check_breach  line 15-18  compare, then read self.breach_count[key]   *)
(*                 line 18     store the read value + 1 into the           *)
(*                             dictionary that was read, and build the     *)
(*                             alert (lines 19-38, datetime.now())         *)
(*                 line 40-41  self.alerts.append(breach)                  *)
(*   reset_counts  line 60     bind self.breach_count to a new dictionary  *)
(*                 line 61     self.alerts.clear()                         *)
(* `x[k] += 1` is a read, an add and a store; a thread that read the old   *)
(* dictionary before line 60 ran stores into that old dictionary, which    *)
(* the monitor no longer holds (local[t].stale).  deque.append and         *)
(* deque.clear are single calls into C and are taken as atomic.            *)
(***************************************************************************)
NumThreads == 2     \* threads sharing the monitor
MaxOps == 4         \* calls started in a run (the clock counts them)
Threads == 1..NumThreads
Idle == [key |-> "", val |-> 0, stale |-> FALSE, breach |-> <<>>]

InitConc ==
    /\ feed = 0
    /\ max_alerts \in 1..MaxCap
    /\ alerts = <<>>
    /\ breach_count = NoBreaches
    /\ now = 0
    /\ call = [op |-> "__init__", max_alerts |-> max_alerts]
    /\ ret = None
    /\ emitted = <<>>
    /\ lifetime = 0
    /\ pc = [t \in Threads |-> "idle"]
    /\ local = [t \in Threads |-> Idle]

\* check_breach, lines 15-18: no breach returns at once; a breach reads the
\* counter it is about to increment.
TCheckRead(t) ==
    /\ pc[t] = "idle"
    /\ now < MaxOps
    /\ now' = now + 1
    /\ \E current_return \in Returns :
          LET r == check_breach(breach_count, alerts, max_alerts,
                                current_return, 1000, 1500, "PORTFOLIO", now)
          IN  IF r.breaches = <<>>
              THEN UNCHANGED <<pc, local>>
              ELSE /\ pc' = [pc EXCEPT ![t] = "store"]
                   /\ local' = [local EXCEPT ![t] =
                          [key |-> r.breaches[1].level,
                           val |-> breach_count[r.breaches[1].level],
                           stale |-> FALSE,
                           breach |-> r.breaches]]
    /\ UNCHANGED <<max_alerts, alerts, breach_count, call, ret, emitted,
                   lifetime, feed>>

\* check_breach, line 18: the store of the incremented value.
TCheckStore(t) ==
    /\ pc[t] = "store"
    /\ breach_count' = IF local[t].stale THEN breach_count
                       ELSE [breach_count EXCEPT ![local[t].key] = local[t].val + 1]
    /\ pc' = [pc EXCEPT ![t] = "append"]
    /\ UNCHANGED <<max_alerts, alerts, now, call, ret, emitted, lifetime, feed,
                   local>>

\* check_breach, lines 40-43: the append to the ring, and the return.
TCheckAppend(t) ==
    /\ pc[t] = "append"
    /\ alerts' = DequeAppend(alerts, max_alerts, local[t].breach[1])
    /\ emitted' = emitted \o local[t].breach
    /\ lifetime' = lifetime + 1
    /\ pc' = [pc EXCEPT ![t] = "idle"]
    /\ local' = [local EXCEPT ![t] = Idle]
    /\ UNCHANGED <<max_alerts, breach_count, now, call, ret, feed>>

\* reset_counts, line 60: a new dictionary of zeros replaces the old one.
TResetCounters(t) ==
    /\ pc[t] = "idle"
    /\ now < MaxOps
    /\ now' = now + 1
    /\ breach_count' = reset_counts(breach_count, alerts).breach_count
    /\ local' = [u \in Threads |->
                    IF pc[u] = "store" THEN [local[u] EXCEPT !.stale = TRUE]
                    ELSE local[u]]
    /\ emitted' = <<>>
    /\ call' = [op |-> "reset_counts"]
    /\ pc' = [pc EXCEPT ![t] = "clear"]
    /\ UNCHANGED <<max_alerts, alerts, ret, lifetime, feed>>

\* reset_counts, line 61: self.alerts.clear().
TResetClear(t) ==
    /\ pc[t] = "clear"
    /\ alerts' = reset_counts(breach_count, alerts).alerts
    /\ pc' = [pc EXCEPT ![t] = "idle"]
    /\ UNCHANGED <<max_alerts, breach_count, now, call, ret, emitted, lifetime,
                   feed, local>>

NextConc ==
    \E t \in Threads :
        \/ TCheckRead(t)
        \/ TCheckStore(t)
        \/ TCheckAppend(t)
        \/ TResetCounters(t)
        \/ TResetClear(t)

SpecConc == InitConc /\ [][NextConc]_vars

(***************************************************************************)
(* BacktestEngine (src/back_testing/validator.py).  Its methods are pure;  *)
(* SpecBacktest calls them on inputs drawn from bounded sets and records   *)
(* the call and its result in `call` and `ret`.                            *)
(*                                                                         *)
(* Series(v) is a pandas Series holding the values v, in order.            *)
(***************************************************************************)
Series(v) == [values |-> v]

MaxBreaches == 12   \* breach counts 0..MaxBreaches are explored
MaxDays == 4        \* kupiec_test: every total_days in 0..MaxDays is explored

MinBacktestObs == 30        \* backtest_results: len(returns) < 30
BaselWindow == 250          \* the 250-day window the Basel bands are set for
KupiecCritical == 3841      \* critical_value = 3.841, in thousandths

(***************************************************************************)
(* count_breaches.  var_decimal = var_threshold / 100 need not be a        *)
(* multiple of 0.01, so the comparison returns < -var_decimal is made on   *)
(* both sides times 100: returns * 100 < -var_threshold.                   *)
(***************************************************************************)
\* Mutant: a return equal to the negated threshold is counted too.
count_breaches_inclusive(returns, var_threshold) ==
    IF returns = None \/ Len(returns.values) = 0
    THEN 0
    ELSE Cardinality({i \in 1..Len(returns.values) :
                         returns.values[i] * 100 <= -var_threshold})

count_breaches(returns, var_threshold) ==
    IF returns = None \/ Len(returns.values) = 0
    THEN 0
    ELSE Cardinality({i \in 1..Len(returns.values) :
                         returns.values[i] * 100 < -var_threshold})

(***************************************************************************)
(* basel_traffic_light.  expected_breaches is computed and never used.     *)
(* Every confidence other than 0.95 takes the 99% branch.                  *)
(***************************************************************************)
\* Mutant: the bands are rescaled by total_days / 250.
basel_traffic_light_scaled(breaches, total_days, confidence_level) ==
    LET scaled(k) == (k * total_days) \div BaselWindow
    IN  IF confidence_level = 95
        THEN IF breaches <= scaled(4) THEN <<"GREEN", "Model is accurate">>
             ELSE IF breaches <= scaled(9) THEN <<"YELLOW", "Model needs attention">>
             ELSE <<"RED", "Model is inadequate">>
        ELSE IF breaches <= scaled(2) THEN <<"GREEN", "Model is accurate">>
             ELSE <<"RED", "Model is inadequate">>

\* Mutant: the green band of the 95% table reaches 5 breaches.
basel_traffic_light_green_5(breaches, total_days, confidence_level) ==
    IF confidence_level = 95
    THEN IF breaches <= 5 THEN <<"GREEN", "Model is accurate">>
         ELSE IF breaches <= 9 THEN <<"YELLOW", "Model needs attention">>
         ELSE <<"RED", "Model is inadequate">>
    ELSE IF breaches <= 2 THEN <<"GREEN", "Model is accurate">>
         ELSE <<"RED", "Model is inadequate">>

basel_traffic_light(breaches, total_days, confidence_level) ==
    LET expected_breaches == total_days * (100 - confidence_level)
    IN  IF confidence_level = 95
        THEN IF breaches <= 4 THEN <<"GREEN", "Model is accurate">>
             ELSE IF breaches <= 9 THEN <<"YELLOW", "Model needs attention">>
             ELSE <<"RED", "Model is inadequate">>
        ELSE IF breaches <= 2 THEN <<"GREEN", "Model is accurate">>
             ELSE <<"RED", "Model is inadequate">>

(***************************************************************************)
(* kupiec_test.  observed_rate = breaches / total_days is evaluated first, *)
(* on Python ints (count_breaches returns int(...), total_days is a len):  *)
(* a total_days of 0 raises ZeroDivisionError.  When the statistic is not  *)
(* the degenerate 0 it is a logarithm of a likelihood ratio, which the     *)
(* model does not evaluate: it keeps it as the term                        *)
(* [LR |-> <<b, n, expected_rate>>], and keeps as terms what the code      *)
(* derives from it (p_value, reject, interpretation).  A value the model   *)
(* does evaluate is Known(v).  In the degenerate case every field is       *)
(* known: lr_statistic 0, p_value 1 - chi2.cdf(0) = 1.0,                   *)
(* reject 0 > 3.841 = False.                                               *)
(***************************************************************************)
Known(v) == [known |-> v]

kupiec_test(breaches, total_days, confidence_level) ==
    IF total_days = 0
    THEN Raise("ZeroDivisionError")
    ELSE
    LET expected_rate == 100 - confidence_level
        degenerate == breaches = 0 \/ breaches = total_days
        lr_stat == IF degenerate THEN Known(0)
                   ELSE [LR |-> <<breaches, total_days, expected_rate>>]
        critical_value == KupiecCritical
        p_value == IF degenerate THEN Known(100) ELSE [chi2_sf |-> lr_stat]
        reject == IF degenerate THEN Known(FALSE)
                  ELSE [gt |-> <<lr_stat, critical_value>>]
    IN  [lr_statistic |-> lr_stat,
         critical_value |-> critical_value,
         p_value |-> p_value,
         reject_model |-> reject,
         interpretation |-> IF degenerate THEN Known("Accept model")
                            ELSE [if_else |-> <<reject, "Reject model", "Accept model">>]]

(***************************************************************************)
(* backtest_results.  label = f"{int(confidence * 100)}%"; the report of a *)
(* confidence level whose 'var_<label>_hist' entry is missing is skipped.  *)
(* breach_rate = breaches / total_days is kept as the pair                 *)
(* <<breaches, total_days>>.                                               *)
(***************************************************************************)
Label(confidence) == ToString(confidence) \o "%"
VarKey(confidence) == "var_" \o Label(confidence) \o "_hist"

\* Mutant: a confidence level without a VaR entry makes the whole result
\* unavailable.
backtest_results_fail_fast(returns, var_metrics, position_value) ==
    IF returns = None \/ Len(returns.values) < MinBacktestObs
    THEN None
    ELSE IF \E c \in {95, 99} : VarKey(c) \notin DOMAIN var_metrics
    THEN None
    ELSE
    LET total_days == Len(returns.values)
        Report(confidence) ==
            LET var_threshold == var_metrics[VarKey(confidence)].var_return
                breaches == count_breaches(returns, var_threshold)
                tl == basel_traffic_light(breaches, total_days, confidence)
                kupiec == kupiec_test(breaches, total_days, confidence)
            IN  [breaches |-> breaches,
                 total_days |-> total_days,
                 breach_rate |-> <<breaches, total_days>>,
                 expected_rate |-> 100 - confidence,
                 traffic_light |-> tl[1],
                 traffic_message |-> tl[2],
                 kupiec_test |-> kupiec]
    IN  [label \in {Label(c) : c \in {95, 99}} |->
            Report(CHOOSE c \in {95, 99} : Label(c) = label)]

backtest_results(returns, var_metrics, position_value) ==
    IF returns = None \/ Len(returns.values) < MinBacktestObs
    THEN None
    ELSE
    LET total_days == Len(returns.values)
        present == {c \in {95, 99} : VarKey(c) \in DOMAIN var_metrics}
        Report(confidence) ==
            LET var_threshold == var_metrics[VarKey(confidence)].var_return
                breaches == count_breaches(returns, var_threshold)
                tl == basel_traffic_light(breaches, total_days, confidence)
                kupiec == kupiec_test(breaches, total_days, confidence)
            IN  [breaches |-> breaches,
                 total_days |-> total_days,
                 breach_rate |-> <<breaches, total_days>>,
                 expected_rate |-> 100 - confidence,
                 traffic_light |-> tl[1],
                 traffic_message |-> tl[2],
                 kupiec_test |-> kupiec]
    IN  [label \in {Label(c) : c \in present} |->
            Report(CHOOSE c \in present : Label(c) = label)]

(***************************************************************************)
(* Inputs.  Confidence 0.90 stands for "any other level".  A synthetic     *)
(* return series of n days with exactly b breaches of a 2.00% VaR: b       *)
(* returns of -0.03, then one return of exactly -0.02 (on the threshold,   *)
(* not below it), then returns of +0.01.                                   *)
(***************************************************************************)
Confidences == {90, 95, 99}
BreachCounts == 0..MaxBreaches
DayCounts == (0..MaxDays) \cup {MinBacktestObs, BaselWindow, 2 * BaselWindow}
SeriesVar == 2 * 100      \* the VaR the series are backtested against, 2.00%
Synthetic(n, b) ==
    Series([i \in 1..n |-> IF i <= b THEN -3 ELSE IF i = b + 1 THEN -2 ELSE 1])
SeriesInputs ==
    {None, Series(<<>>)}
    \cup {Synthetic(n, b) : n \in {MinBacktestObs - 1, MinBacktestObs, BaselWindow},
                            b \in BreachCounts}
VarMetricsInputs ==
    {[k \in {VarKey(c) : c \in cs} |-> [var_return |-> SeriesVar]] :
        cs \in SUBSET {95, 99}}

InitBacktest ==
    /\ feed = 0
    /\ max_alerts = DefaultMaxAlerts
    /\ alerts = <<>>
    /\ breach_count = NoBreaches
    /\ now = 0
    /\ call = [op |-> "BacktestEngine"]
    /\ ret = None
    /\ emitted = <<>>
    /\ lifetime = 0
    /\ pc = <<>>
    /\ local = <<>>

Unchanged == UNCHANGED <<max_alerts, alerts, breach_count, now, emitted,
                         lifetime, feed, threadVars>>

CountBreaches ==
    /\ \E returns \in SeriesInputs, var_threshold \in {0, SeriesVar, 250} :
          /\ call' = [op |-> "count_breaches", returns |-> returns,
                      var_threshold |-> var_threshold]
          /\ ret' = Value(count_breaches(returns, var_threshold))
    /\ Unchanged

BaselTrafficLight ==
    /\ \E breaches \in BreachCounts, total_days \in DayCounts,
          confidence \in Confidences :
          /\ call' = [op |-> "basel_traffic_light", breaches |-> breaches,
                      total_days |-> total_days, confidence |-> confidence]
          /\ ret' = Tuple(basel_traffic_light(breaches, total_days, confidence))
    /\ Unchanged

KupiecTest ==
    /\ \E total_days \in DayCounts, confidence \in Confidences :
          \E breaches \in {b \in BreachCounts : b <= total_days} \cup {total_days} :
              /\ call' = [op |-> "kupiec_test", breaches |-> breaches,
                          total_days |-> total_days, confidence |-> confidence]
              /\ ret' = kupiec_test(breaches, total_days, confidence)
    /\ Unchanged

BacktestResults ==
    /\ \E returns \in SeriesInputs, var_metrics \in VarMetricsInputs :
          /\ call' = [op |-> "backtest_results", returns |-> returns,
                      var_metrics |-> var_metrics]
          /\ ret' = backtest_results(returns, var_metrics, 1000000)
    /\ Unchanged

NextBacktest == CountBreaches \/ BaselTrafficLight \/ KupiecTest \/ BacktestResults

SpecBacktest == InitBacktest /\ [][NextBacktest]_vars

(***************************************************************************)
(* VaRCalculator (src/risk_metrics/var_calculator.py).  Its methods are    *)
(* pure; SpecRisk draws a return series, a confidence level and a position *)
(* value, applies one method and records the result in `ret`.              *)
(*                                                                         *)
(* In SpecRisk a return is an integer number of thousandths (-0.119 is     *)
(* -119), a percentage is in thousandths of a percent (11.9% is 11900) and *)
(* a currency amount x * position_value is the product of the two          *)
(* integers.  The operators do not depend on the unit: `* 100` and `/ 100` *)
(* are the same in hundredths and in thousandths.                          *)
(*                                                                         *)
(* The code works in IEEE doubles, and three of its roundings change a     *)
(* result by more than the last digit:                                     *)
(*  - 1 - confidence_level: 1 - 0.9 is 0.09999999999999998, so             *)
(*    int((1 - 0.9) * 10) is 0, not 1 (OneMinusRoundsDown); 1 - 0.95 and   *)
(*    1 - 0.99 round up and int(...) is the floor for every n <= 1000;     *)
(*  - abs(x) * 100 followed, in count_breaches, by / 100: for x = 0.119    *)
(*    the percentage is 11.899999999999999 and the decimal derived from it *)
(*    is 0.11899999999999998 < x; for other x it is x or just above x      *)
(*    (PctRoundsDown, PctRoundsUp).  A percentage is represented by 100    *)
(*    times the decimal that `/ 100` derives from it, so an integer that   *)
(*    is not a multiple of 100 stands for a double strictly between two    *)
(*    returns of the grid;                                                 *)
(*  - means, standard deviations and quotients are rounded toward zero to  *)
(*    the resolution of the model.                                         *)
(***************************************************************************)
MaxLow == 3         \* a series holds 0..MaxLow copies of each of its two low values

OneMinusRoundsDown == {90}
PctRoundsDown == {119, 167, 173, 181, 189, 197}
PctRoundsUp == {7, 13, 14, 26, 27, 28, 29, 41, 52, 54, 56, 58, 82, 89, 93, 97,
                101, 104, 108, 112, 116, 123, 164, 178, 186, 194}

\* abs(x) * 100 for a magnitude x >= 0.
Pct(x) == x * 100 + (IF x \in PctRoundsDown THEN -1
                     ELSE IF x \in PctRoundsUp THEN 1 ELSE 0)

\* a / b rounded toward zero, b > 0.
Quot(a, b) == IF a >= 0 THEN a \div b ELSE -((-a) \div b)

ISqrt(x) == CHOOSE r \in 0..x : r * r <= x /\ x < (r + 1) * (r + 1)

Range(v) == {v[i] : i \in DOMAIN v}

\* The sum of a series, value by value: each distinct value times the number
\* of its copies.
RECURSIVE Weighted(_, _)
Weighted(v, values) ==
    IF values = {}
    THEN 0
    ELSE LET x == CHOOSE m \in values : TRUE
             copies == Cardinality({j \in DOMAIN v : v[j] = x})
         IN  x * copies + Weighted(v, values \ {x})

Sum(v) == Weighted(v, Range(v))

\* np.sort: the values in ascending order.
RECURSIVE Ascending(_, _)
Ascending(v, values) ==
    IF values = {}
    THEN <<>>
    ELSE LET x == CHOOSE m \in values : \A y \in values : m <= y
             copies == Cardinality({j \in DOMAIN v : v[j] = x})
         IN  [j \in 1..copies |-> x] \o Ascending(v, values \ {x})

np_sort(v) == Ascending(v, Range(v))

\* int((1 - confidence_level) * len(sorted_returns))
var_index(confidence_level, n) ==
    LET exact == (100 - confidence_level) * n
    IN  IF confidence_level \in OneMinusRoundsDown /\ exact % 100 = 0
        THEN exact \div 100 - 1
        ELSE exact \div 100

historical_var(returns, confidence_level, position_value) ==
    IF returns = None \/ Len(returns.values) < 10
    THEN None
    ELSE
    LET sorted_returns == np_sort(returns.values)
        k == var_index(confidence_level, Len(sorted_returns))
        var_return == sorted_returns[k + 1]
        var_dollar == Abs(var_return * position_value)
    IN  [var_return |-> Pct(Abs(var_return)),
         var_dollar |-> var_dollar,
         confidence |-> confidence_level,
         method |-> "Historical Simulation"]

\* stats.norm.ppf(1 - confidence_level), in thousandths.
z_score(confidence_level) ==
    CASE confidence_level = 90 -> -1282
      [] confidence_level = 95 -> -1645
      [] confidence_level = 99 -> -2326

\* returns.std() of a pandas Series divides by n - 1.
parametric_var(returns, confidence_level, position_value) ==
    IF returns = None \/ Len(returns.values) < 10
    THEN None
    ELSE
    LET v == returns.values
        n == Len(v)
        sum == Sum(v)
        squares == Sum([i \in 1..n |-> v[i] * v[i]])
        mean == Quot(sum, n)
        std == ISqrt(Quot(n * squares - sum * sum, n * (n - 1)))
        var_return == Abs(mean + Quot(z_score(confidence_level) * std, 1000))
        var_dollar == var_return * position_value
    IN  [var_return |-> var_return * 100,
         var_dollar |-> var_dollar,
         confidence |-> confidence_level,
         method |-> "Parametric (Normal)"]

\* tail_returns.mean() is the pair sum / length; a mean that is a return of
\* the grid is converted to a percentage as that return is.
expected_shortfall(returns, confidence_level, position_value) ==
    IF returns = None \/ Len(returns.values) < 10
    THEN None
    ELSE
    LET sorted_returns == np_sort(returns.values)
        k == var_index(confidence_level, Len(sorted_returns))
        tail_returns == SubSeq(sorted_returns, 1, k + 1)
        total == Abs(Sum(tail_returns))
        length == Len(tail_returns)
        es_dollar == IF position_value >= 0
                     THEN Quot(total * position_value, length)
                     ELSE -Quot(total * (-position_value), length)
    IN  [es_return |-> IF total % length = 0 THEN Pct(total \div length)
                       ELSE Quot(total * 100, length),
         es_dollar |-> es_dollar,
         confidence |-> confidence_level,
         method |-> "Expected Shortfall"]

ParamKey(confidence) == "var_" \o Label(confidence) \o "_param"
EsKey(confidence) == "es_" \o Label(confidence)

\* Mutant: only the 0.95 level is computed.
calculate_all_metrics_95_only(returns, position_value) ==
    IF historical_var(returns, 95, position_value) = None
    THEN <<>>
    ELSE [key \in {VarKey(95), ParamKey(95), EsKey(95)} |->
             IF key = VarKey(95) THEN historical_var(returns, 95, position_value)
             ELSE IF key = ParamKey(95) THEN parametric_var(returns, 95, position_value)
             ELSE expected_shortfall(returns, 95, position_value)]

calculate_all_metrics(returns, position_value) ==
    LET hist_var(conf) == historical_var(returns, conf, position_value)
        param_var(conf) == parametric_var(returns, conf, position_value)
        es(conf) == expected_shortfall(returns, conf, position_value)
        keys == {VarKey(conf) : conf \in {c \in {95, 99} : hist_var(c) # None}}
                \cup {ParamKey(conf) : conf \in {c \in {95, 99} : param_var(c) # None}}
                \cup {EsKey(conf) : conf \in {c \in {95, 99} : es(c) # None}}
        Entry(key) ==
            LET conf == CHOOSE c \in {95, 99} : key \in {VarKey(c), ParamKey(c), EsKey(c)}
            IN  IF key = VarKey(conf) THEN hist_var(conf)
                ELSE IF key = ParamKey(conf) THEN param_var(conf)
                ELSE es(conf)
    IN  [key \in keys |-> Entry(key)]

(***************************************************************************)
(* Inputs.  SeriesOf(n, a, x, b, y, z) is a series of n returns: b returns *)
(* y, then returns z, then a returns x at the end; with x <= y <= z the    *)
(* lowest returns are the a copies of x and the b copies of y.             *)
(***************************************************************************)
Lengths == {0, 9, 10, 20, 30, 200}
Shapes == {<<-150, -119, 10>>, <<-119, -50, 10>>, <<-50, -14, 20>>,
           <<-50, 10, 20>>, <<10, 20, 20>>}
PositionValues == {-100000, 100000, 200000}

SeriesOf(n, a, x, b, y, z) ==
    Series([i \in 1..n |-> IF i <= b THEN y ELSE IF i <= n - a THEN z ELSE x])

RiskSeries ==
    {None} \cup {SeriesOf(n, a, s[1], b, s[2], s[3]) :
                    n \in Lengths, a \in 0..MaxLow, b \in 0..MaxLow, s \in Shapes}

InitRisk ==
    /\ feed = 0
    /\ max_alerts = DefaultMaxAlerts
    /\ alerts = <<>>
    /\ breach_count = NoBreaches
    /\ now = 0
    /\ \E returns \in RiskSeries, confidence \in Confidences,
          position_value \in PositionValues :
          call = [op |-> "VaRCalculator", returns |-> returns,
                  confidence |-> confidence, position_value |-> position_value]
    /\ ret = None
    /\ emitted = <<>>
    /\ lifetime = 0
    /\ pc = <<>>
    /\ local = <<>>

Called(op) == call' = [call EXCEPT !.op = op]

HistoricalVar ==
    /\ call.op = "VaRCalculator"
    /\ Called("historical_var")
    /\ ret' = historical_var(call.returns, call.confidence, call.position_value)
    /\ Unchanged

ParametricVar ==
    /\ call.op = "VaRCalculator"
    /\ Called("parametric_var")
    /\ ret' = parametric_var(call.returns, call.confidence, call.position_value)
    /\ Unchanged

ExpectedShortfall ==
    /\ call.op = "VaRCalculator"
    /\ Called("expected_shortfall")
    /\ ret' = expected_shortfall(call.returns, call.confidence, call.position_value)
    /\ Unchanged

CalculateAllMetrics ==
    /\ call.op = "VaRCalculator"
    /\ Called("calculate_all_metrics")
    /\ ret' = calculate_all_metrics(call.returns, call.position_value)
    /\ Unchanged

\* RiskDashboard.run, lines 97-98: the metrics computed from the returns are
\* handed to backtest_results with the same returns.
RunBacktest ==
    /\ call.op = "VaRCalculator"
    /\ Called("run")
    /\ LET var_metrics == calculate_all_metrics(call.returns, call.position_value)
       IN  ret' = backtest_results(call.returns, var_metrics, call.position_value)
    /\ Unchanged

NextRisk ==
    \/ HistoricalVar
    \/ ParametricVar
    \/ ExpectedShortfall
    \/ CalculateAllMetrics
    \/ RunBacktest

SpecRisk == InitRisk /\ [][NextRisk]_vars

(***************************************************************************)
(* StressTestEngine (src/stress_testing/scenarios.py).  SpecStress draws a *)
(* scenario name and a position map and applies apply_scenario.            *)
(*                                                                         *)
(* A shock and a correlation are in hundredths (-0.15 is -15, 0.9 is 90),  *)
(* their product is in ten-thousandths (-0.135 is -1350).  A position is   *)
(* in units of 10,000 (10,000,000 is 1000), so that a loss, position times *)
(* a shock in ten-thousandths, is in currency units; loss_pct is in        *)
(* hundredths of a percent.                                                *)
(***************************************************************************)
ScenarioNames == {"market_crash", "covid_style", "volatility_spike", "2008_crisis"}

\* self.scenarios; the sigma of 'Market Crash (-3σ)' is written out.
scenarios ==
    [scenario_name \in ScenarioNames |->
        CASE scenario_name = "market_crash" ->
                 [name |-> "Market Crash (-3 sigma)", nifty_shock |-> -15,
                  equity_correlation |-> 90]
          [] scenario_name = "covid_style" ->
                 [name |-> "COVID-style Crash", nifty_shock |-> -38,
                  equity_correlation |-> 95]
          [] scenario_name = "volatility_spike" ->
                 [name |-> "Volatility Spike", vol_multiplier |-> 250,
                  nifty_shock |-> -10]
          [] scenario_name = "2008_crisis" ->
                 [name |-> "2008-style Crisis", nifty_shock |-> -52,
                  equity_correlation |-> 98]]

DefaultCorrelation == 80    \* shock = scenario['nifty_shock'] * 0.8

Symbols == {"^NSEI", "RELIANCE.NS", "TCS.NS"}

\* '^NSEI' in symbol
ContainsNSEI(symbol) == symbol = "^NSEI"

RECURSIVE SumOver(_, _)
SumOver(f, keys) ==
    IF keys = {}
    THEN 0
    ELSE LET k == CHOOSE x \in keys : TRUE
         IN  f[k] + SumOver(f, keys \ {k})

\* Mutant: an instrument other than the index takes the index shock in full.
Loss_uncorrelated(scenario, symbol, position) ==
    position * Abs(scenario.nifty_shock) * 100

\* The loss of one instrument, lines 45-55.
Loss(scenario, symbol, position) ==
    IF ContainsNSEI(symbol)
    THEN position * Abs(scenario.nifty_shock) * 100
    ELSE LET shock == IF "equity_correlation" \in DOMAIN scenario
                      THEN scenario.nifty_shock * scenario.equity_correlation
                      ELSE scenario.nifty_shock * DefaultCorrelation
         IN  position * Abs(shock)

\* loss / position divides by a position of 0 at line 60.
apply_scenario(scenario_name, position_values, returns_data) ==
    IF scenario_name \notin DOMAIN scenarios
    THEN None
    ELSE IF \E symbol \in DOMAIN position_values : position_values[symbol] = 0
    THEN Raise("ZeroDivisionError")
    ELSE
    LET scenario == scenarios[scenario_name]
        results == [symbol \in DOMAIN position_values |->
                       LET position == position_values[symbol]
                           loss == Loss(scenario, symbol, position)
                       IN  [position |-> position,
                            loss |-> loss,
                            loss_pct |-> loss \div position]]
        total_loss == SumOver([symbol \in DOMAIN results |-> results[symbol].loss],
                              DOMAIN results)
    IN  [scenario_name |-> scenario.name,
         total_loss |-> total_loss,
         asset_breakdown |-> results]

NameInputs == ScenarioNames \cup {"rate_hike", ""}
PositionInputs == {-500, 0, 500, 1000}
PositionMaps == UNION {[held -> PositionInputs] : held \in SUBSET Symbols}

InitStress ==
    /\ feed = 0
    /\ max_alerts = DefaultMaxAlerts
    /\ alerts = <<>>
    /\ breach_count = NoBreaches
    /\ now = 0
    /\ \E scenario_name \in NameInputs, position_values \in PositionMaps :
          call = [op |-> "StressTestEngine", scenario_name |-> scenario_name,
                  position_values |-> position_values]
    /\ ret = None
    /\ emitted = <<>>
    /\ lifetime = 0
    /\ pc = <<>>
    /\ local = <<>>

ApplyScenario ==
    /\ call.op = "StressTestEngine"
    /\ Called("apply_scenario")
    /\ ret' = apply_scenario(call.scenario_name, call.position_values, None)
    /\ Unchanged

NextStress == ApplyScenario

SpecStress == InitStress /\ [][NextStress]_vars

(***************************************************************************)
(* ReturnsEngine (src/returns_engine/returns.py).  SpecReturns draws a     *)
(* price table and applies calculate_returns.                              *)
(*                                                                         *)
(* A closing price is Price(x), x an integer, or NaN.  A return is a       *)
(* double that the model does not evaluate: Log(p, q) is the finite        *)
(* ln(p / q) of two prices of the same sign, PlusInf, MinusInf and NotANumber *)
(* are the non-finite doubles.  In IEEE arithmetic x / 0 is +inf or -inf   *)
(* for x # 0 and NaN for x = 0, np.log is -inf at 0, +inf at +inf and NaN  *)
(* below 0; Series.dropna() removes NaN and keeps +inf and -inf.           *)
(***************************************************************************)
MaxPrices == 4      \* a price table has 0..MaxPrices rows

Price(x) == [nan |-> FALSE, value |-> x]
NaN == [nan |-> TRUE, value |-> 0]
DataFrame(close) == [Close |-> close]

Log(p, q) == [kind |-> "finite", ln |-> <<p, q>>]
PlusInf == [kind |-> "+inf", ln |-> <<>>]
MinusInf == [kind |-> "-inf", ln |-> <<>>]
NotANumber == [kind |-> "nan", ln |-> <<>>]

\* np.log(p / q) for two closing prices.
LogRatio(p, q) ==
    IF p.nan \/ q.nan THEN NotANumber
    ELSE IF q.value = 0
    THEN IF p.value > 0 THEN PlusInf ELSE NotANumber
    ELSE IF p.value = 0 THEN MinusInf
    ELSE IF (p.value > 0) = (q.value > 0) THEN Log(p.value, q.value)
    ELSE NotANumber

IsNotNaN(r) == r.kind # "nan"

dropna(s) == Series(SelectSeq(s.values, IsNotNaN))

\* price_data['Close'].shift(1): the first row has no previous price.
shift(close) == [t \in DOMAIN close |-> IF t = 1 THEN NaN ELSE close[t - 1]]

calculate_returns(price_data) ==
    IF price_data = None \/ Len(price_data.Close) < 2
    THEN None
    ELSE LET close == price_data.Close
             previous == shift(close)
             returns == Series([t \in DOMAIN close |-> LogRatio(close[t], previous[t])])
         IN  dropna(returns)

PriceInputs == {NaN, Price(-100), Price(0), Price(100), Price(110)}
RECURSIVE Tables(_)
Tables(n) ==
    IF n = 0 THEN {<<>>}
    ELSE LET shorter == Tables(n - 1)
         IN  shorter \cup {Append(close, p) : close \in {c \in shorter : Len(c) = n - 1},
                                              p \in PriceInputs}
PriceTables == {None} \cup {DataFrame(close) : close \in Tables(MaxPrices)}

InitReturns ==
    /\ feed = 0
    /\ max_alerts = DefaultMaxAlerts
    /\ alerts = <<>>
    /\ breach_count = NoBreaches
    /\ now = 0
    /\ \E price_data \in PriceTables :
          call = [op |-> "ReturnsEngine", price_data |-> price_data]
    /\ ret = None
    /\ emitted = <<>>
    /\ lifetime = 0
    /\ pc = <<>>
    /\ local = <<>>

CalculateReturns ==
    /\ call.op = "ReturnsEngine"
    /\ Called("calculate_returns")
    /\ ret' = calculate_returns(call.price_data)
    /\ Unchanged

NextReturns == CalculateReturns

SpecReturns == InitReturns /\ [][NextReturns]_vars

(***************************************************************************)
(* Properties of the AlertMonitor, checked under Spec.                     *)
(***************************************************************************)
LastN(s, k) == SubSeq(s, Len(s) - k + 1, Len(s))
Lifetime == breach_count["95%"] + breach_count["99%"]
IsCheck(c) == c.op = "check_breach"

\* C1: a check_breach call whose |return| x 100 exceeds var_99 emits exactly
\* one alert (99%, CRITICAL), adds 1 to the 99% counter and leaves the 95%
\* counter; otherwise, if it exceeds var_95, it emits exactly one alert (95%,
\* WARNING), adds 1 to the 95% counter and leaves the 99% counter; otherwise
\* it emits nothing and leaves the ring and both counters.  No call emits two
\* alerts or increments both counters.
C1_Step ==
    IsCheck(call') =>
        LET a == Abs(call'.current_return * 100)
            emits == ret'.list
        IN  /\ Len(emits) <= 1
            /\ ~ (/\ breach_count'["95%"] # breach_count["95%"]
                  /\ breach_count'["99%"] # breach_count["99%"])
            /\ IF a > call'.var_99
               THEN /\ Len(emits) = 1
                    /\ emits[1].level = "99%"
                    /\ emits[1].severity = "CRITICAL"
                    /\ breach_count'["99%"] = breach_count["99%"] + 1
                    /\ breach_count'["95%"] = breach_count["95%"]
               ELSE IF a > call'.var_95
               THEN /\ Len(emits) = 1
                    /\ emits[1].level = "95%"
                    /\ emits[1].severity = "WARNING"
                    /\ breach_count'["95%"] = breach_count["95%"] + 1
                    /\ breach_count'["99%"] = breach_count["99%"]
               ELSE /\ emits = <<>>
                    /\ alerts' = alerts
                    /\ breach_count' = breach_count
C1_ExclusiveBreach == [][C1_Step]_vars

\* C1 witness: a return above both thresholds (var_95 < var_99) was checked on
\* a monitor that already held a 95% breach; one CRITICAL alert came back and
\* the 95% counter still reads 1.
C1_Witness ==
    /\ IsCheck(call)
    /\ call.var_95 < call.var_99
    /\ Abs(call.current_return * 100) > call.var_99
    /\ Len(ret.list) = 1
    /\ ret.list[1].severity = "CRITICAL"
    /\ breach_count["95%"] = 1
    /\ breach_count["99%"] = 1

\* C2: the ring never holds more than max_alerts alerts, and it holds exactly
\* the most recent min(max_alerts, E) of the E alerts emitted since
\* construction or the last reset, in emission order (a full ring evicts its
\* oldest entry and no other).
C2_RingIsRecentSuffix ==
    /\ Len(alerts) <= max_alerts
    /\ alerts = LastN(emitted, Min(max_alerts, Len(emitted)))

\* C2 witness: a ring of capacity 2 or more is full after an eviction.
C2_Witness ==
    /\ max_alerts >= 2
    /\ max_alerts < DefaultMaxAlerts
    /\ Len(emitted) > max_alerts
    /\ Len(alerts) = max_alerts
    /\ alerts[1] = emitted[Len(emitted) - max_alerts + 1]

\* C3: eviction does not touch the lifetime counters: the two counters sum to
\* the number of alerts emitted since construction or the last reset, and
\* summary().total_alerts is min(capacity, that sum); after FeedTarget (150)
\* alerts on a monitor of the default capacity (100), total_alerts is the
\* capacity and the counters sum to FeedTarget.
C3_CountersSurviveEviction ==
    /\ Lifetime = Len(emitted)
    /\ get_alert_summary(breach_count, alerts).total_alerts
           = Min(max_alerts, Lifetime)
    /\ call.op = "get_alert_summary" =>
           ret.total_alerts = Min(max_alerts, ret.breaches_95 + ret.breaches_99)
    /\ (max_alerts = DefaultMaxAlerts /\ Len(emitted) = FeedTarget) =>
           /\ get_alert_summary(breach_count, alerts).total_alerts
                  = DefaultMaxAlerts
           /\ Lifetime = FeedTarget

\* C3 witness: summary() was called after 150 alerts on a capacity-100
\* monitor; both levels were breached on the way.
C3_Witness ==
    /\ call.op = "get_alert_summary"
    /\ max_alerts = 100
    /\ Len(emitted) = 150
    /\ ret.total_alerts = 100
    /\ ret.breaches_95 > 0
    /\ ret.breaches_99 > 0
    /\ ret.breaches_95 + ret.breaches_99 = 150

\* C4: reset_counts leaves the ring empty and both counters at 0, and no other
\* operation (check_breach, get_recent_alerts, get_alert_summary) lowers a
\* counter.
C4_Step ==
    /\ call'.op = "reset_counts" =>
           /\ alerts' = <<>>
           /\ breach_count'["95%"] = 0
           /\ breach_count'["99%"] = 0
    /\ call'.op \in {"check_breach", "get_recent_alerts", "get_alert_summary"} =>
           /\ breach_count'["95%"] >= breach_count["95%"]
           /\ breach_count'["99%"] >= breach_count["99%"]
C4_OnlyResetShrinks == [][C4_Step]_vars

\* C4 witness: reset_counts has just run on a monitor that had emitted alerts.
C4_Witness ==
    /\ call.op = "reset_counts"
    /\ lifetime >= 2
    /\ alerts = <<>>
    /\ Lifetime = 0

\* C5 (as claimed): get_recent_alerts(n), n >= 0, returns the last
\* min(n, size) entries of the ring, oldest first; get_recent_alerts(0)
\* returns the empty list.
C5_RecentIsLastN ==
    call.op = "get_recent_alerts" =>
        ret = List(LastN(alerts, Min(call.n, Len(alerts))))

\* C6: every alert check_breach emits records the threshold it breached
\* (var_99 for CRITICAL, var_95 for WARNING), the signed return x 100, and
\* excess = |return| x 100 - threshold > 0.  Return 0.12 against 10.0 / 15.0
\* gives one WARNING at 95% with excess 2.0; return -0.20 gives one CRITICAL
\* at 99% with excess 5.0 and no 95% alert.
C6_AlertFields ==
    /\ IsCheck(call) =>
           \A i \in 1..Len(ret.list) :
              /\ ret.list[i].threshold = (IF ret.list[i].severity = "CRITICAL"
                                           THEN call.var_99 ELSE call.var_95)
              /\ ret.list[i].return = call.current_return * 100
              /\ ret.list[i].symbol = call.symbol
    /\ \A i \in 1..Len(emitted) :
           /\ emitted[i].excess = Abs(emitted[i].return) - emitted[i].threshold
           /\ emitted[i].excess > 0
    /\ (/\ IsCheck(call) /\ call.var_95 = 1000 /\ call.var_99 = 1500
        /\ call.current_return = 12) =>
           /\ Len(ret.list) = 1
           /\ ret.list[1].level = "95%" /\ ret.list[1].severity = "WARNING"
           /\ ret.list[1].excess = 200
    /\ (/\ IsCheck(call) /\ call.var_95 = 1000 /\ call.var_99 = 1500
        /\ call.current_return = -20) =>
           /\ Len(ret.list) = 1
           /\ ret.list[1].level = "99%" /\ ret.list[1].severity = "CRITICAL"
           /\ ret.list[1].excess = 500

\* C6 witness: the return -0.20 was checked against 10.0 / 15.0 and one
\* CRITICAL alert with excess 5.0 came back.
C6_Witness ==
    /\ IsCheck(call)
    /\ call.current_return = -20
    /\ call.var_95 = 1000
    /\ call.var_99 = 1500
    /\ Len(ret.list) = 1
    /\ ret.list[1].return = -2000
    /\ ret.list[1].threshold = 1500
    /\ ret.list[1].excess = 500

(***************************************************************************)
(* Properties of the AlertMonitor under concurrent callers, checked under  *)
(* SpecConc.                                                               *)
(***************************************************************************)
Quiescent == \A t \in Threads : pc[t] = "idle"

\* C7 (as claimed): with check_breach and reset_counts called concurrently,
\* the counter update and the ring update are one critical section, so no
\* increment is lost and ring size = min(capacity, counter95 + counter99).
\* Stated for the states in which no call is in progress, the only ones a
\* critical section would let another caller see; and, for the increments,
\* for the runs in which reset_counts was never called (lifetime counts the
\* alerts the calls emitted).
C7_ConcurrentConsistency ==
    Quiescent =>
        /\ Len(alerts) = Min(max_alerts, Lifetime)
        /\ call.op = "__init__" => Lifetime = lifetime

(***************************************************************************)
(* Properties of the BacktestEngine, checked under SpecBacktest.           *)
(***************************************************************************)
IsBasel(c) == c.op = "basel_traffic_light"
IsBacktestOf(c, returns) == c.op = "backtest_results" /\ c.returns = returns
Raised(r) == "raised" \in DOMAIN r

\* C8: basel_traffic_light depends on breaches and confidence only, never on
\* total_days: at 0.95 GREEN for breaches <= 4, YELLOW for 5..9, RED for
\* >= 10; at 0.99 GREEN for breaches <= 2 and RED otherwise, never YELLOW.
C8_BaselBands ==
    (IsBasel(call) /\ call.confidence \in {95, 99}) =>
        LET b == call.breaches
            band == IF call.confidence = 95
                    THEN IF b \in 0..4 THEN "GREEN"
                         ELSE IF b \in 5..9 THEN "YELLOW" ELSE "RED"
                    ELSE IF b \in 0..2 THEN "GREEN" ELSE "RED"
        IN  /\ ret.tuple[1] = band
            /\ call.confidence = 99 => ret.tuple[1] # "YELLOW"

\* C8 witness: 5 breaches at 0.95 over 500 days (twice the 250-day window) are
\* YELLOW, as they are over 250 days.
C8_Witness ==
    /\ IsBasel(call)
    /\ call.confidence = 95
    /\ call.total_days = 2 * BaselWindow
    /\ call.breaches = 5
    /\ ret.tuple[1] = "YELLOW"

\* C9 (as claimed): a return series with exactly 5 breaches at 95% over 250
\* days is classified GREEN, and with one more breach (6) YELLOW.
C9_FiveBreachesGreen ==
    /\ (IsBacktestOf(call, Synthetic(BaselWindow, 5)) /\ "95%" \in DOMAIN ret) =>
           ret["95%"].traffic_light = "GREEN"
    /\ (IsBacktestOf(call, Synthetic(BaselWindow, 6)) /\ "95%" \in DOMAIN ret) =>
           ret["95%"].traffic_light = "YELLOW"
    /\ (IsBasel(call) /\ call.confidence = 95 /\ call.total_days = BaselWindow) =>
           /\ call.breaches = 5 => ret.tuple[1] = "GREEN"
           /\ call.breaches = 6 => ret.tuple[1] = "YELLOW"

\* C9 (amended): a return series with exactly 5 breaches at 95% over 250 days
\* is classified YELLOW, as is the series with one more breach (6); the
\* series with 4 breaches is the last one classified GREEN.
C9_FiveBreachesYellow ==
    /\ \A b \in {4, 5, 6} :
          (IsBacktestOf(call, Synthetic(BaselWindow, b)) /\ "95%" \in DOMAIN ret) =>
              /\ ret["95%"].breaches = b
              /\ ret["95%"].total_days = BaselWindow
              /\ ret["95%"].traffic_light = (IF b = 4 THEN "GREEN" ELSE "YELLOW")
    /\ (IsBasel(call) /\ call.confidence = 95 /\ call.total_days = BaselWindow) =>
           /\ call.breaches = 4 => ret.tuple[1] = "GREEN"
           /\ call.breaches = 5 => ret.tuple[1] = "YELLOW"
           /\ call.breaches = 6 => ret.tuple[1] = "YELLOW"

\* C9 witness: the 250-day series with exactly 5 breaches was backtested
\* against its 95% VaR and came out YELLOW.
C9_Witness ==
    /\ IsBacktestOf(call, Synthetic(BaselWindow, 5))
    /\ "95%" \in DOMAIN ret
    /\ ret["95%"].breaches = 5
    /\ ret["95%"].total_days = 250
    /\ ret["95%"].traffic_light = "YELLOW"

\* C10 (as claimed): for every confidence and every total_days n >= 0,
\* kupiec_test(b, n, confidence) with b = 0 or b = n returns a result (does
\* not fail) whose LR statistic is 0 and whose reject decision is false.
C10_DegenerateKupiec ==
    (/\ call.op = "kupiec_test"
     /\ (call.breaches = 0 \/ call.breaches = call.total_days)) =>
        /\ ~ Raised(ret)
        /\ ret.lr_statistic = Known(0)
        /\ ret.reject_model = Known(FALSE)

\* C11: count_breaches(returns, var_threshold) is the number of returns r with
\* r < -(var_threshold / 100), strictly: a return equal to the negated
\* threshold is not counted, a positive return is never counted for a
\* threshold >= 0, and the result is 0 for an empty or absent series.  A
\* synthetic series of b breaches therefore counts b, and against a threshold
\* of 0 it counts its b + 1 negative returns.
C11_StrictBreachCount ==
    call.op = "count_breaches" =>
        LET returns == call.returns
            t == call.var_threshold
        IN  IF returns = None \/ returns = Series(<<>>)
            THEN ret = Value(0)
            ELSE LET v == returns.values
                     below == {i \in DOMAIN v : v[i] * 100 < -t}
                     equal == {i \in DOMAIN v : v[i] * 100 = -t}
                     negative == {i \in DOMAIN v : v[i] < 0}
                 IN  /\ ret = Value(Cardinality(below))
                     /\ ret.value <= Cardinality(negative)
                     /\ ret.value + Cardinality(equal) <= Len(v)
                     /\ \A b \in BreachCounts :
                           returns = Synthetic(Len(v), b) =>
                              ret.value = (IF t = 0 THEN b + 1 ELSE b)

\* C11 witness: a 30-day series with 5 breaches of a 2.00% VaR, one return of
\* exactly -0.02 and 24 positive returns counts 5.
C11_Witness ==
    /\ call.op = "count_breaches"
    /\ call.returns = Synthetic(MinBacktestObs, 5)
    /\ call.returns.values[6] * 100 = -call.var_threshold
    /\ call.var_threshold = SeriesVar
    /\ ret = Value(5)

\* C12: backtest_results returns None for an absent series or fewer than 30
\* observations; otherwise it returns a mapping that holds a report for 95%
\* (99%) exactly when var_metrics has the entry 'var_95%_hist'
\* ('var_99%_hist'), each report with total_days = len(returns), breach_rate =
\* breaches / total_days and expected_rate = 1 - confidence; a missing entry
\* never makes the call fail.
C12_SparseBacktest ==
    call.op = "backtest_results" =>
        LET returns == call.returns
            has95 == "var_95%_hist" \in DOMAIN call.var_metrics
            has99 == "var_99%_hist" \in DOMAIN call.var_metrics
        IN  /\ ~ Raised(ret)
            /\ IF returns = None \/ Len(returns.values) < 30
               THEN ret = None
               ELSE /\ ret # None
                    /\ DOMAIN ret = (IF has95 THEN {"95%"} ELSE {})
                                        \cup (IF has99 THEN {"99%"} ELSE {})
                    /\ \A label \in DOMAIN ret :
                          /\ ret[label].total_days = Len(returns.values)
                          /\ ret[label].breaches \in 0..Len(returns.values)
                          /\ ret[label].breach_rate =
                                 <<ret[label].breaches, Len(returns.values)>>
                          /\ ret[label].expected_rate =
                                 (IF label = "95%" THEN 5 ELSE 1)

\* C12 witness: 30 observations backtested against a 99% entry alone give a
\* report for 99% and none for 95%.
C12_Witness ==
    /\ call.op = "backtest_results"
    /\ call.returns # None
    /\ Len(call.returns.values) = 30
    /\ DOMAIN call.var_metrics = {"var_99%_hist"}
    /\ ret # None
    /\ DOMAIN ret = {"99%"}
    /\ ret["99%"].total_days = 30
    /\ ret["99%"].expected_rate = 1

(***************************************************************************)
(* Properties of the VaRCalculator, checked under SpecRisk.                *)
(***************************************************************************)
Available(returns) == returns # None /\ Len(returns.values) >= 10

\* C13 (as claimed): for every return series of length >= 10, whatever the
\* sign of its lowest returns, and every confidence, the Expected Shortfall
\* return magnitude is >= the historical VaR return magnitude at the same
\* confidence.
C13_EsDominatesVar ==
    /\ (call.op = "calculate_all_metrics" /\ Available(call.returns)) =>
           /\ ret["es_95%"].es_return >= ret["var_95%_hist"].var_return
           /\ ret["es_99%"].es_return >= ret["var_99%_hist"].var_return
    /\ (call.op = "expected_shortfall" /\ Available(call.returns)) =>
           ret.es_return >= historical_var(call.returns, call.confidence,
                                           call.position_value).var_return

\* C14 (as claimed): every estimate of historical VaR, parametric VaR and
\* Expected Shortfall has a return magnitude >= 0 and a currency magnitude
\* >= 0, whatever the sign of the returns and of the position.
C14_NonNegativeMagnitudes ==
    /\ (call.op \in {"historical_var", "parametric_var"} /\ ret # None) =>
           ret.var_return >= 0 /\ ret.var_dollar >= 0
    /\ (call.op = "expected_shortfall" /\ ret # None) =>
           ret.es_return >= 0 /\ ret.es_dollar >= 0
    /\ call.op = "calculate_all_metrics" =>
           \A key \in DOMAIN ret :
               IF key \in {"es_95%", "es_99%"}
               THEN ret[key].es_return >= 0 /\ ret[key].es_dollar >= 0
               ELSE ret[key].var_return >= 0 /\ ret[key].var_dollar >= 0

\* C15: historical_var, parametric_var and expected_shortfall return None,
\* without raising, for an absent series or fewer than 10 observations, and a
\* result otherwise; calculate_all_metrics never fails and returns a mapping
\* that has the entry of a (method, confidence) pair, confidence 0.95 or 0.99,
\* exactly when that computation was available: all six entries for 10 or
\* more observations, none below.
C15_SparseMetrics ==
    /\ ~ Raised(ret)
    /\ call.op \in {"historical_var", "parametric_var", "expected_shortfall"} =>
           (ret = None <=> ~ Available(call.returns))
    /\ call.op = "calculate_all_metrics" =>
           /\ ret # None
           /\ DOMAIN ret =
                  (IF Available(call.returns)
                   THEN {"var_95%_hist", "var_95%_param", "es_95%",
                         "var_99%_hist", "var_99%_param", "es_99%"}
                   ELSE {})
           /\ \A c \in {95, 99} :
                 /\ VarKey(c) \in DOMAIN ret <=>
                        historical_var(call.returns, c, call.position_value) # None
                 /\ ParamKey(c) \in DOMAIN ret <=>
                        parametric_var(call.returns, c, call.position_value) # None
                 /\ EsKey(c) \in DOMAIN ret <=>
                        expected_shortfall(call.returns, c, call.position_value) # None

\* C15 witness: calculate_all_metrics on 9 observations returned the empty
\* mapping.
C15_Witness ==
    /\ call.op = "calculate_all_metrics"
    /\ call.returns # None
    /\ Len(call.returns.values) = 9
    /\ ret # None
    /\ DOMAIN ret = {}

\* C19 (as claimed): for every return series of length n >= 10 and every
\* confidence c, historical_var uses the index k = floor((1 - c) * n), which
\* satisfies 0 <= k < n; its return magnitude is |sorted[k]| of the ascending
\* series, the same for every position value; and its currency figure is
\* |sorted[k]| * position_value.
C19_HistoricalIndex ==
    (call.op = "historical_var" /\ Available(call.returns)) =>
        LET sorted == np_sort(call.returns.values)
            n == Len(sorted)
            k == ((100 - call.confidence) * n) \div 100
        IN  /\ 0 <= k /\ k < n
            /\ ret.var_return = Pct(Abs(sorted[k + 1]))
            /\ \A position \in PositionValues :
                   historical_var(call.returns, call.confidence, position).var_return
                       = ret.var_return
            /\ ret.var_dollar = Abs(sorted[k + 1]) * call.position_value

\* C20 (as claimed): when backtest_results is fed the historical VaR that
\* calculate_all_metrics computed from the same series of n >= 30 returns, the
\* breach count reported at confidence c never exceeds floor((1 - c) * n);
\* hence for n < 300 the 99% report has at most 2 breaches and a GREEN light.
C20_BreachesWithinIndex ==
    (call.op = "run" /\ call.returns # None /\ Len(call.returns.values) >= 30) =>
        LET n == Len(call.returns.values)
        IN  /\ ret # None
            /\ \A c \in {95, 99} :
                   /\ Label(c) \in DOMAIN ret
                   /\ ret[Label(c)].breaches <= ((100 - c) * n) \div 100
            /\ n < 300 =>
                   /\ ret[Label(99)].breaches <= 2
                   /\ ret[Label(99)].traffic_light = "GREEN"

(***************************************************************************)
(* Properties of the StressTestEngine, checked under SpecStress.           *)
(***************************************************************************)
\* C16 (as claimed): apply_scenario called with a scenario name that is not
\* in the catalog ends in an UnknownScenario failure raised to the caller,
\* not in an 'unavailable' return value.
C16_UnknownScenarioRaises ==
    (call.op = "apply_scenario" /\ call.scenario_name \notin ScenarioNames) =>
        /\ Raised(ret)
        /\ ret # None

C21_ZeroPositionHandled ==
    (call.op = "apply_scenario" /\ call.scenario_name \in ScenarioNames) =>
        /\ ~ Raised(ret)
        /\ ret # None
        /\ DOMAIN ret.asset_breakdown = DOMAIN call.position_values
        /\ \A symbol \in DOMAIN call.position_values :
               call.position_values[symbol] = 0 =>
                   ret.asset_breakdown[symbol].loss = 0

(***************************************************************************)
(* Properties of the ReturnsEngine, checked under SpecReturns.             *)
(***************************************************************************)
Usable(p) == ~ p.nan /\ p.value > 0

\* C18 (as claimed): calculate_returns returns None whenever fewer than 2
\* usable (finite, positive) prices exist, and otherwise a series that holds
\* no NaN, +inf or -inf, of length len(prices) - 1 when every price is
\* usable.
C18_FiniteReturns ==
    call.op = "calculate_returns" =>
        LET close == IF call.price_data = None THEN <<>> ELSE call.price_data.Close
            usable == {t \in DOMAIN close : Usable(close[t])}
        IN  IF Cardinality(usable) < 2
            THEN ret = None
            ELSE /\ ret # None
                 /\ \A i \in DOMAIN ret.values : ret.values[i].kind = "finite"
                 /\ Cardinality(usable) = Len(close) =>
                        Len(ret.values) = Len(close) - 1

====
